---- MODULE Spec2Model ----
(***************************************************************************)
(* Hierarchical PSF estimation and reconstruction of DepthDeblur           *)
(* (src/motion-deblurring/src/depth_deblur.cpp).                           *)
(*                                                                         *)
(* A cv::Mat is a header that points to a reference-counted data buffer:   *)
(* `a = b` makes a share b's buffer, `b.copyTo(a)` writes b's content into *)
(* a's buffer when a already has one of the same size and allocates a new  *)
(* buffer for a otherwise.  The model keeps the two apart: psfBuf is the   *)
(* header of every node's psf, psfData the content of every buffer.        *)
(*                                                                         *)
(* Kernel contents are symbolic: a kernel is the sequence of node ids that *)
(* names how it was derived (the seed of a top-level node, then one id per *)
(* joint estimation), so two kernels are equal only if they were computed  *)
(* the same way from the same inputs.                                      *)
(***************************************************************************)
EXTENDS Integers, Sequences, FiniteSets, TLC

VARIABLES
    tree,            \* shape of the region tree (built before estimation)
    layers,          \* DepthDeblur::layers
    nThreads,        \* argument nThreads of the running call
    deconvAlgo,      \* DepthDeblur::deconvAlgoPSFSelection
    scene,           \* which image content the numerical collaborators see
    seedFits,        \* the loaded kernel images are psfWidth x psfWidth
    leftMissing,     \* leaves whose LEFT mask is empty
    rightMissing,    \* leaves whose RIGHT mask is empty
    phase,           \* position of the calling thread between the passes
    remainingNodes,  \* DepthDeblur::remainingNodes (shared FIFO queue)
    visitedLeafs,    \* DepthDeblur::visitedLeafs
    m,               \* DepthDeblur::m, 0 = free, else the holding thread
    mCounter,        \* DepthDeblur::mCounter, 0 = free, else the holder
    psfBuf,          \* regionTree[n].psf header: <<>> or <<buffer>>
    psfData,         \* content of every buffer: <<>> = not yet written
    entropy,         \* regionTree[n].entropy: <<>> or <<value>>
    regionDeconv,    \* DepthDeblur::regionDeconv (size and entries)
    regionStack,     \* DepthDeblur::regionStack (shared LIFO stack)
    call,            \* the reconstruction call: which regions, which view
    dst,             \* the destination image of the reconstruction call
    pc,              \* position of every thread in its worker function
    loc,             \* locals of every thread
    hist,            \* history of the run (observers only, never read by the code)
    sel,             \* the locals of one psfSelection call (its scan, step by step)
    rel,             \* one isReliablePSF call: <<>> or its argument and result
    request,         \* the constructor's arguments width and _layers
    psfWidth,        \* DepthDeblur::psfWidth, <<>> before construction
    disparityMaps,   \* DepthDeblur::disparityMaps, <<>> before they are estimated
    error,           \* the exception that ended the run, <<>> if none
    norm             \* one kernel with numeric entries on its way into a node

vars == <<tree, layers, nThreads, deconvAlgo, scene, seedFits, leftMissing, rightMissing,
          phase, remainingNodes, visitedLeafs, m, mCounter, psfBuf, psfData,
          entropy, regionDeconv, regionStack, call, dst, pc, loc, hist, sel, rel,
          request, psfWidth, disparityMaps, error, norm>>

-----------------------------------------------------------------------------
(* Bounds of the model *)

MaxThreads == 2
EnergyScale == 1

(* children.first == -1 marks a leaf *)
NoChild == -1

Threads == 1..MaxThreads

-----------------------------------------------------------------------------
(* The region tree: leaves are 0..layers-1, every internal node has two      *)
(* children, the top-level nodes are the roots of the forest.                *)

TreeShapes == {"pair", "quad", "twoTops"}

LeafCount(shape) == IF shape = "pair" THEN 2 ELSE 4

NodeCount(shape) ==
    CASE shape = "pair" -> 3
      [] shape = "quad" -> 7
      [] shape = "twoTops" -> 6

Nodes == 0..(NodeCount(tree) - 1)

Leaves == 0..(LeafCount(tree) - 1)

topLevelNodeIds ==
    CASE tree = "pair" -> <<2>>
      [] tree = "quad" -> <<6>>
      [] tree = "twoTops" -> <<4, 5>>

TopLevel == {topLevelNodeIds[i] : i \in 1..Len(topLevelNodeIds)}

children(n) ==
    CASE n \in Leaves -> <<NoChild, NoChild>>
      [] n = 6 -> <<4, 5>>
      [] n = 5 -> <<2, 3>>
      [] n = 4 -> <<0, 1>>
      [] OTHER -> <<0, 1>>

IsInternal(n) == children(n)[1] # NoChild /\ children(n)[2] # NoChild

parent(n) ==
    IF \E p \in Nodes : IsInternal(p) /\ (children(p)[1] = n \/ children(p)[2] = n)
    THEN CHOOSE p \in Nodes : IsInternal(p) /\ (children(p)[1] = n \/ children(p)[2] = n)
    ELSE NoChild

RECURSIVE LeavesOf(_)
LeavesOf(n) ==
    IF IsInternal(n) THEN LeavesOf(children(n)[1]) \cup LeavesOf(children(n)[2])
    ELSE {n}

RECURSIVE Height(_)
Height(n) == IF IsInternal(n) THEN 1 + Height(children(n)[1]) ELSE 0

(* regionTree.getLevelPeers(id): all nodes that share id's level *)
getLevelPeers(n) == {p \in Nodes : Height(p) = Height(n)}

(* The depth values missing from a disparity map: the first a leaves have an  *)
(* empty LEFT mask, the last b leaves an empty RIGHT mask; every view keeps   *)
(* at least one leaf                                                          *)
MaskConfigs(shape) ==
    {mc \in {<<0, 0>>, <<1, 0>>, <<0, 1>>, <<0, 2>>, <<2, 2>>} :
        mc[1] < LeafCount(shape) /\ mc[2] < LeafCount(shape)}

(* the image contents the collaborators are evaluated on *)
Scenes == {0, 1}

(* a test of the LEFT mask only *)
LeftMaskNonEmpty(n) == LeavesOf(n) \ leftMissing # {}

(* sum(masks[LEFT])[0] != 0 && sum(masks[RIGHT])[0] != 0 *)
MasksNonEmpty(n) ==
    /\ LeavesOf(n) \ leftMissing # {}
    /\ LeavesOf(n) \ rightMissing # {}

-----------------------------------------------------------------------------
(* The numerical collaborators, as functions of their arguments *)

RECURSIVE Code(_)
Code(k) ==
    IF k = <<>> THEN 0
    ELSE (3 * Code(SubSeq(k, 1, Len(k) - 1)) + k[Len(k)] + 1) % 7

(* the kernel image loaded and normalised for the i-th top-level node *)
SeedKernel(n) == <<n>>

(* estimateChildPSF: the kernel of child c estimated with parent kernel k *)
JointEstimate(c, k) == Append(k, c)

(* computeEntropy of a kernel *)
computeEntropy(k) == 1 + ((Code(k) + scene) % 3)

(* 1 - gradientCorrelation for region n deconvolved with kernel k, in steps  *)
(* of 1/EnergyScale over the range [0, 2].  psfSelection masks both gradient *)
(* images with the region's LEFT mask: with an empty mask they are zero for  *)
(* every candidate, so the energy does not depend on the kernel              *)
Energy(n, k) ==
    IF LeavesOf(n) \subseteq leftMissing
    THEN (IF scene = 0 THEN 2 * EnergyScale ELSE EnergyScale)
    ELSE (Code(k) + n * (scene + 1)) % (2 * EnergyScale + 1)


(* DepthDeblur::psfSelection, the scan over the candidates' energies:        *)
(* minEnergy starts at 2, a candidate wins only with a strictly smaller      *)
(* energy.  Candidates are numbered from 1 here (0 in the source).  `cached` *)
(* is the candidate whose latent image was last copied to regionDeconv, 0 if *)
(* none was.                                                                 *)
MinEnergyStart == 2 * EnergyScale

ScanStart(energies) ==
    [energies |-> energies, i |-> 1, minEnergy |-> MinEnergyStart, winner |-> 1, cached |-> 0]

(* a comparison that lets a later candidate win a tie *)
ImprovesOrTies(energy, minEnergy) == energy <= minEnergy

(* if (energy < minEnergy) *)
Improves(energy, minEnergy) == energy < minEnergy

(* one iteration of the loop over the candidates *)
ScanStep(st) ==
    IF Improves(st.energies[st.i], st.minEnergy)
    THEN [st EXCEPT !.minEnergy = st.energies[st.i], !.winner = st.i, !.cached = st.i,
                    !.i = @ + 1]
    ELSE [st EXCEPT !.i = @ + 1]

RECURSIVE ScanAll(_)
ScanAll(st) == IF st.i > Len(st.energies) THEN st ELSE ScanAll(ScanStep(st))

psfSelection(energies) == ScanAll(ScanStart(energies))

-----------------------------------------------------------------------------
(* State helpers *)

Config == <<request, psfWidth, disparityMaps, error, norm>>

Inputs == <<tree, layers, nThreads, deconvAlgo, scene, seedFits, leftMissing, rightMissing,
            regionStack, call, dst, sel, rel, Config>>

Active == 1..nThreads

(* a node's first buffer carries the node's id, a buffer allocated for it    *)
(* later the id shifted by the number of nodes                               *)
Buffers == 0..(2 * NodeCount(tree) - 1)

DataIn(buf, data, n) == IF buf[n] = <<>> THEN <<>> ELSE data[buf[n][1]]

Data(n) == DataIn(psfBuf, psfData, n)

(* rows x cols of a kernel: psfWidth x psfWidth for every estimate, the size  *)
(* of the loaded image for a top-level kernel                                 *)
SizeOf(k) == IF Len(k) = 1 /\ ~seedFits THEN "image" ELSE "psfWidth"

(* Mat::copyTo(dst) -> dst.create(size, type): dst keeps its buffer when it   *)
(* has one of the source's size, and gets a new buffer otherwise              *)
CopyTargetIn(buf, data, n, k) ==
    IF buf[n] # <<>> /\ (data[buf[n][1]] = <<>> \/ SizeOf(data[buf[n][1]]) = SizeOf(k))
    THEN buf[n][1]
    ELSE IF \A x \in Nodes : buf[x] # <<n>> THEN n ELSE n + NodeCount(tree)

CopyTarget(n, k) == CopyTargetIn(psfBuf, psfData, n, k)

SharingBuffer(b) == {n \in Nodes : psfBuf[n] = <<b>>}

NoLocals == [id |-> NoChild, ci |-> 1, k |-> <<>>, cands |-> <<>>, win |-> <<>>, seen |-> <<>>]

Child(t) == children(loc[t].id)[loc[t].ci]

(* DepthDeblur::isReliablePSF; an entropy that was never assigned reads as 0 *)
EntropyOf(ent, n) == IF ent[n] = <<>> THEN 0 ELSE ent[n][1]

RECURSIVE SumEntropy(_, _)
SumEntropy(ent, S) ==
    IF S = {} THEN 0
    ELSE LET n == CHOOSE x \in S : TRUE IN EntropyOf(ent, n) + SumEntropy(ent, S \ {n})

(* a test of the distance to the mean in both directions *)
ReliableNearMean(ent, n) ==
    LET peers == getLevelPeers(n)
        sum == SumEntropy(ent, peers)
        d == Cardinality(peers) * EntropyOf(ent, n) - sum
    IN  5 * (IF d < 0 THEN -d ELSE d) < sum

(* entropy - mean < 0.2 * mean, with mean = sum / peers.size(), multiplied   *)
(* by 5 * peers.size() to stay in the integers                               *)
ReliableIn(ent, n) ==
    LET peers == getLevelPeers(n)
        sum == SumEntropy(ent, peers)
    IN  5 * Cardinality(peers) * EntropyOf(ent, n) < 6 * sum

isReliablePSF(n) == ReliableIn(entropy, n)

(* DepthDeblur::candidateSelection: the headers pushed to the vector, own,   *)
(* parent, and the sibling if it is reliable                                 *)
CandidatesIn(buf, ent, n, sid) ==
    <<buf[n], buf[parent(n)]>> \o (IF ReliableIn(ent, sid) THEN <<buf[sid]>> ELSE <<>>)

candidateSelection(n, sid) == CandidatesIn(psfBuf, entropy, n, sid)

HeaderData(data, h) == IF h = <<>> THEN <<>> ELSE data[h[1]]

CandidateData(h) == HeaderData(psfData, h)

(* the energies psfSelection computes for the candidates cs of region c *)
EnergiesIn(data, c, cs) == [i \in 1..Len(cs) |-> Energy(c, HeaderData(data, cs[i]))]

Written(S, tag) == [n \in Nodes |-> IF n \in S THEN Append(hist.written[n], tag) ELSE hist.written[n]]

-----------------------------------------------------------------------------
(* The calling thread: DepthDeblur::midLevelKernelEstimation *)

AllDone == \A t \in Active : pc[t] = "done"

PushTopLevel == remainingNodes \o topLevelNodeIds

StartPropagation ==
    /\ phase = "seeded"
    /\ phase' = "prop"
    /\ visitedLeafs' = 0
    /\ remainingNodes' = PushTopLevel
    /\ pc' = [t \in Threads |-> IF t \in Active THEN "loop" ELSE "off"]
    /\ UNCHANGED <<Inputs, m, mCounter, psfBuf, psfData, entropy, regionDeconv, loc, hist>>

(* the second pass started when the calling thread's own loop has ended,    *)
(* without the joins                                                         *)
StartRefinementNoJoin ==
    /\ phase = "prop"
    /\ pc[1] = "done"
    /\ phase' = "refine"
    /\ visitedLeafs' = 0
    /\ remainingNodes' = PushTopLevel
    /\ pc' = [t \in Threads |-> IF t \in Active THEN "resize" ELSE "off"]
    /\ hist' = [hist EXCEPT !.pops = [n \in Nodes |-> 0], !.processed = {},
                            !.propPsf = [n \in Nodes |-> Data(n)]]
    /\ UNCHANGED <<Inputs, m, mCounter, psfBuf, psfData, entropy, regionDeconv, loc>>

(* the joins of the first pass and the prologue of the second: counter      *)
(* reset, top-level ids pushed, workers started                              *)
StartRefinement ==
    /\ phase = "prop"
    /\ AllDone
    /\ phase' = "refine"
    /\ visitedLeafs' = 0
    /\ remainingNodes' = PushTopLevel
    /\ pc' = [t \in Threads |-> IF t \in Active THEN "resize" ELSE "off"]
    /\ hist' = [hist EXCEPT !.pops = [n \in Nodes |-> 0], !.processed = {},
                            !.propPsf = [n \in Nodes |-> Data(n)]]
    /\ UNCHANGED <<Inputs, m, mCounter, psfBuf, psfData, entropy, regionDeconv, loc>>

FinishEstimation ==
    /\ phase = "refine"
    /\ AllDone
    /\ phase' = "estimated"
    /\ UNCHANGED <<Inputs, remainingNodes, visitedLeafs, m, mCounter, psfBuf, psfData,
                   entropy, regionDeconv, pc, loc, hist>>

-----------------------------------------------------------------------------
(* The worker loop shared by midLevelKernelEstimationNode and                *)
(* midLevelKernelRefinement                                                  *)

(* a loop that also ends when the queue is found empty *)
LoopTestStopsOnEmpty(t) ==
    /\ pc[t] = "loop"
    /\ pc' = [pc EXCEPT ![t] = IF visitedLeafs # layers /\ remainingNodes # <<>>
                               THEN "lock_q" ELSE "done"]
    /\ UNCHANGED <<Inputs, phase, remainingNodes, visitedLeafs, m, mCounter, psfBuf,
                   psfData, entropy, regionDeconv, loc, hist>>

(* while (visitedLeafs != layers): the counter is read without mCounter *)
(* a loop that ends when the leaves of the tree are counted *)
LoopTestCountsTreeLeaves(t) ==
    /\ pc[t] = "loop"
    /\ pc' = [pc EXCEPT ![t] = IF visitedLeafs # Cardinality(Leaves) THEN "lock_q" ELSE "done"]
    /\ UNCHANGED <<Inputs, phase, remainingNodes, visitedLeafs, m, mCounter, psfBuf,
                   psfData, entropy, regionDeconv, loc, hist>>

LoopTest(t) ==
    /\ pc[t] = "loop"
    /\ pc' = [pc EXCEPT ![t] = IF visitedLeafs # layers THEN "lock_q" ELSE "done"]
    /\ UNCHANGED <<Inputs, phase, remainingNodes, visitedLeafs, m, mCounter, psfBuf,
                   psfData, entropy, regionDeconv, loc, hist>>

(* safeQueueAccess: lock_guard<mutex> g(m) *)
QueueLock(t) ==
    /\ pc[t] = "lock_q"
    /\ m = 0
    /\ m' = t
    /\ pc' = [pc EXCEPT ![t] = "access_q"]
    /\ UNCHANGED <<Inputs, phase, remainingNodes, visitedLeafs, mCounter, psfBuf,
                   psfData, entropy, regionDeconv, loc, hist>>

(* safeQueueAccess: front and pop, or report the empty queue; the guard      *)
(* unlocks on return                                                         *)
safeQueueAccess(t) ==
    /\ pc[t] = "access_q"
    /\ m' = 0
    /\ IF remainingNodes # <<>>
       THEN LET item == Head(remainingNodes) IN
            /\ remainingNodes' = Tail(remainingNodes)
            /\ loc' = [loc EXCEPT ![t].id = item, ![t].ci = 1]
            /\ hist' = [hist EXCEPT !.pops[item] = @ + 1]
            /\ pc' = [pc EXCEPT ![t] =
                        IF IsInternal(item)
                        THEN (IF phase = "prop" THEN "child" ELSE "candidates")
                        ELSE "lock_c"]
       ELSE /\ pc' = [pc EXCEPT ![t] = "loop"]
            /\ UNCHANGED <<remainingNodes, loc, hist>>
    /\ UNCHANGED <<Inputs, phase, visitedLeafs, mCounter, psfBuf, psfData, entropy,
                   regionDeconv>>

(* m.lock() before the two pushes *)
PushLock(t) ==
    /\ pc[t] = "lock_push"
    /\ m = 0
    /\ m' = t
    /\ pc' = [pc EXCEPT ![t] = "push"]
    /\ UNCHANGED <<Inputs, phase, remainingNodes, visitedLeafs, mCounter, psfBuf,
                   psfData, entropy, regionDeconv, loc, hist>>

(* the push without m.unlock() *)
PushChildrenKeepsLock(t) ==
    /\ pc[t] = "push"
    /\ remainingNodes' = remainingNodes \o children(loc[t].id)
    /\ m' = m
    /\ pc' = [pc EXCEPT ![t] = "loop"]
    /\ hist' = [hist EXCEPT !.processed = @ \cup {loc[t].id}]
    /\ loc' = [loc EXCEPT ![t] = NoLocals]
    /\ UNCHANGED <<Inputs, phase, visitedLeafs, mCounter, psfBuf, psfData, entropy,
                   regionDeconv>>

(* the first child pushed twice, the second never *)
PushChildrenTwice(t) ==
    /\ pc[t] = "push"
    /\ remainingNodes' = remainingNodes \o <<children(loc[t].id)[1], children(loc[t].id)[1]>>
    /\ m' = 0
    /\ pc' = [pc EXCEPT ![t] = "loop"]
    /\ hist' = [hist EXCEPT !.processed = @ \cup {loc[t].id}]
    /\ loc' = [loc EXCEPT ![t] = NoLocals]
    /\ UNCHANGED <<Inputs, phase, visitedLeafs, mCounter, psfBuf, psfData, entropy,
                   regionDeconv>>

(* remainingNodes.push(cid1); remainingNodes.push(cid2); m.unlock() *)
PushChildren(t) ==
    /\ pc[t] = "push"
    /\ remainingNodes' = remainingNodes \o children(loc[t].id)
    /\ m' = 0
    /\ pc' = [pc EXCEPT ![t] = "loop"]
    /\ hist' = [hist EXCEPT !.processed = @ \cup {loc[t].id}]
    /\ loc' = [loc EXCEPT ![t] = NoLocals]
    /\ UNCHANGED <<Inputs, phase, visitedLeafs, mCounter, psfBuf, psfData, entropy,
                   regionDeconv>>

(* mCounter.lock() *)
CounterLock(t) ==
    /\ pc[t] = "lock_c"
    /\ mCounter = 0
    /\ mCounter' = t
    /\ pc' = [pc EXCEPT ![t] = "count"]
    /\ UNCHANGED <<Inputs, phase, remainingNodes, visitedLeafs, m, psfBuf, psfData,
                   entropy, regionDeconv, loc, hist>>

(* a leaf counted twice *)
CountLeafTwice(t) ==
    /\ pc[t] = "count"
    /\ visitedLeafs' = visitedLeafs + 2
    /\ mCounter' = 0
    /\ pc' = [pc EXCEPT ![t] = "loop"]
    /\ hist' = [hist EXCEPT !.processed = @ \cup {loc[t].id}]
    /\ loc' = [loc EXCEPT ![t] = NoLocals]
    /\ UNCHANGED <<Inputs, phase, remainingNodes, m, psfBuf, psfData, entropy,
                   regionDeconv>>

(* a leaf that is processed without being counted *)
CountLeafLost(t) ==
    /\ pc[t] = "count"
    /\ mCounter' = 0
    /\ pc' = [pc EXCEPT ![t] = "loop"]
    /\ hist' = [hist EXCEPT !.processed = @ \cup {loc[t].id}]
    /\ loc' = [loc EXCEPT ![t] = NoLocals]
    /\ UNCHANGED <<Inputs, phase, remainingNodes, visitedLeafs, m, psfBuf, psfData, entropy,
                   regionDeconv>>

(* visitedLeafs++; mCounter.unlock() *)
CountLeaf(t) ==
    /\ pc[t] = "count"
    /\ visitedLeafs' = visitedLeafs + 1
    /\ mCounter' = 0
    /\ pc' = [pc EXCEPT ![t] = "loop"]
    /\ hist' = [hist EXCEPT !.processed = @ \cup {loc[t].id}]
    /\ loc' = [loc EXCEPT ![t] = NoLocals]
    /\ UNCHANGED <<Inputs, phase, remainingNodes, m, psfBuf, psfData, entropy,
                   regionDeconv>>


-----------------------------------------------------------------------------
(* Propagation: the body of midLevelKernelEstimationNode for an internal node *)

NextChild(t, last) ==
    IF loc[t].ci = 1 THEN [pc EXCEPT ![t] = "child"] ELSE [pc EXCEPT ![t] = last]

StepChild(t) == IF loc[t].ci = 1 THEN [loc EXCEPT ![t].ci = 2] ELSE [loc EXCEPT ![t].ci = 1]

(* an else branch that leaves the child's psf as it is *)
InheritNothing(t) == UNCHANGED <<psfBuf, hist>>

(* regionTree[cid].psf = regionTree[id].psf: the child's header now shares    *)
(* the parent's buffer                                                       *)
InheritParentPSF(t) ==
    /\ psfBuf' = [psfBuf EXCEPT ![Child(t)] = psfBuf[loc[t].id]]
    /\ hist' = [hist EXCEPT !.written = Written({Child(t)}, "prop")]

(* getMasks and the test of both masks; an empty mask takes the else branch *)
ChildMasks(t) ==
    /\ pc[t] = "child"
    /\ IF MasksNonEmpty(Child(t))
       THEN /\ pc' = [pc EXCEPT ![t] = "estimate"]
            /\ UNCHANGED <<psfBuf, loc, hist>>
       ELSE /\ InheritParentPSF(t)
            /\ pc' = NextChild(t, "entropy")
            /\ loc' = StepChild(t)
    /\ UNCHANGED <<Inputs, phase, remainingNodes, visitedLeafs, m, mCounter, psfData,
                   entropy, regionDeconv>>

(* estimateChildPSF: deconvolution with the parent's kernel, salient edges,  *)
(* jointPSFEstimation up to kernelROI.copyTo(psf), which allocates the       *)
(* child's buffer when the child has none                                    *)
EstimateChildPSF(t) ==
    /\ pc[t] = "estimate"
    /\ loc' = [loc EXCEPT ![t].k = JointEstimate(Child(t), Data(loc[t].id))]
    /\ psfBuf' = [psfBuf EXCEPT ![Child(t)] =
                     <<CopyTarget(Child(t), JointEstimate(Child(t), Data(loc[t].id)))>>]
    /\ hist' = [hist EXCEPT !.estCalls[Child(t)] = @ + 1,
                            !.badRead = @ \/ Data(loc[t].id) = <<>>]
    /\ pc' = [pc EXCEPT ![t] = "store"]
    /\ UNCHANGED <<Inputs, phase, remainingNodes, visitedLeafs, m, mCounter, psfData,
                   entropy, regionDeconv>>

(* the content of the estimate is in place: copyTo and psf /= sum(psf)[0] *)
StoreChildPSF(t) ==
    /\ pc[t] = "store"
    /\ LET b == psfBuf[Child(t)][1] IN
        /\ psfData' = [psfData EXCEPT ![b] = loc[t].k]
        /\ hist' = [hist EXCEPT !.written = Written(SharingBuffer(b), "prop")]
    /\ pc' = NextChild(t, "entropy")
    /\ loc' = [StepChild(t) EXCEPT ![t].k = <<>>]
    /\ UNCHANGED <<Inputs, phase, remainingNodes, visitedLeafs, m, mCounter, psfBuf,
                   entropy, regionDeconv>>

(* both entropies computed from the PSF of the node instead of the child's *)
ComputeEntropiesOfParent(t) ==
    /\ pc[t] = "entropy"
    /\ LET c1 == children(loc[t].id)[1]
           c2 == children(loc[t].id)[2]
       IN  /\ entropy' = [entropy EXCEPT ![c1] = <<computeEntropy(Data(loc[t].id))>>,
                                         ![c2] = <<computeEntropy(Data(loc[t].id))>>]
           /\ hist' = [hist EXCEPT !.badRead = @ \/ Data(c1) = <<>> \/ Data(c2) = <<>>]
    /\ pc' = [pc EXCEPT ![t] = "lock_push"]
    /\ UNCHANGED <<Inputs, phase, remainingNodes, visitedLeafs, m, mCounter, psfBuf,
                   psfData, regionDeconv, loc>>

(* regionTree[cid].entropy = computeEntropy(regionTree[cid].psf), both children *)
ComputeEntropies(t) ==
    /\ pc[t] = "entropy"
    /\ LET c1 == children(loc[t].id)[1]
           c2 == children(loc[t].id)[2]
       IN  /\ entropy' = [entropy EXCEPT ![c1] = <<computeEntropy(Data(c1))>>,
                                         ![c2] = <<computeEntropy(Data(c2))>>]
           /\ hist' = [hist EXCEPT !.badRead = @ \/ Data(c1) = <<>> \/ Data(c2) = <<>>]
    /\ pc' = [pc EXCEPT ![t] = "lock_push"]
    /\ UNCHANGED <<Inputs, phase, remainingNodes, visitedLeafs, m, mCounter, psfBuf,
                   psfData, regionDeconv, loc>>

-----------------------------------------------------------------------------
(* Refinement: midLevelKernelRefinement *)

(* vector::resize(n): entries kept, new entries empty *)
ResizedTo(v, n) ==
    [i \in 1..n |-> IF i <= Len(v) THEN v[i] ELSE <<>>]

Resized(v) == ResizedTo(v, layers)

(* if (deconvAlgoPSFSelection == IRLS) regionDeconv.resize(layers): the      *)
(* vector is read here ...                                                   *)
ResizeBegin(t) ==
    /\ pc[t] = "resize"
    /\ IF deconvAlgo = "IRLS"
       THEN /\ pc' = [pc EXCEPT ![t] = "resizing"]
            /\ loc' = [loc EXCEPT ![t].seen = regionDeconv]
       ELSE /\ pc' = [pc EXCEPT ![t] = "loop"]
            /\ UNCHANGED loc
    /\ UNCHANGED <<Inputs, phase, remainingNodes, visitedLeafs, m, mCounter, psfBuf,
                   psfData, entropy, regionDeconv, hist>>

(* ... and replaced here when its size was not layers; no lock is held, so   *)
(* the storage installed is built from what this thread read                 *)
ResizeEnd(t) ==
    /\ pc[t] = "resizing"
    /\ regionDeconv' = IF Len(loc[t].seen) = layers THEN regionDeconv
                       ELSE Resized(loc[t].seen)
    /\ pc' = [pc EXCEPT ![t] = "loop"]
    /\ loc' = [loc EXCEPT ![t].seen = <<>>]
    /\ UNCHANGED <<Inputs, phase, remainingNodes, visitedLeafs, m, mCounter, psfBuf,
                   psfData, entropy, hist>>

(* candidateSelection(candiates1, cid1, cid2); candidateSelection(candiates2, cid2, cid1) *)
BuildCandidates(t) ==
    /\ pc[t] = "candidates"
    /\ LET c1 == children(loc[t].id)[1]
           c2 == children(loc[t].id)[2]
       IN  loc' = [loc EXCEPT ![t].cands = <<candidateSelection(c1, c2),
                                              candidateSelection(c2, c1)>>,
                              ![t].ci = 1]
    /\ pc' = [pc EXCEPT ![t] = "select"]
    /\ UNCHANGED <<Inputs, phase, remainingNodes, visitedLeafs, m, mCounter, psfBuf,
                   psfData, entropy, regionDeconv, hist>>

(* the latent image of region n deconvolved with kernel k *)
Latent(n, k) == <<n, k>>

(* psfSelection(candidates, winners[ci], cid): every candidate is scored, the *)
(* winner's content is copied to winners[ci]; an IRLS leaf caches the latent *)
(* image of the last candidate that lowered minEnergy                        *)
SelectWinner(t) ==
    /\ pc[t] = "select"
    /\ LET c == Child(t)
           cs == loc[t].cands[loc[t].ci]
           r == psfSelection(EnergiesIn(psfData, c, cs))
       IN  /\ loc' = [loc EXCEPT ![t].win = Append(@, CandidateData(cs[r.winner])),
                                 ![t].ci = IF @ = 1 THEN 2 ELSE 1]
           /\ regionDeconv' =
                IF ~IsInternal(c) /\ deconvAlgo = "IRLS" /\ r.cached # 0
                   /\ c < Len(regionDeconv)
                THEN [regionDeconv EXCEPT ![c + 1] = Latent(c, CandidateData(cs[r.cached]))]
                ELSE regionDeconv
           /\ hist' = [hist EXCEPT !.badRead =
                          @ \/ \E i \in 1..Len(cs) : CandidateData(cs[i]) = <<>>,
                                   !.cached =
                          IF ~IsInternal(c) /\ deconvAlgo = "IRLS" /\ r.cached # 0
                             /\ c < Len(regionDeconv)
                          THEN @ \cup {c} ELSE @]
    /\ pc' = IF loc[t].ci = 1 THEN pc ELSE [pc EXCEPT ![t] = "store_win"]
    /\ UNCHANGED <<Inputs, phase, remainingNodes, visitedLeafs, m, mCounter, psfBuf,
                   psfData, entropy>>

(* the winners of the two children stored the wrong way round *)
StoreWinnerSwapped(t) ==
    /\ pc[t] = "store_win"
    /\ LET c == Child(t)
           w == loc[t].win[IF loc[t].ci = 1 THEN 2 ELSE 1]
           b == CopyTarget(c, w)
       IN  /\ psfBuf' = [psfBuf EXCEPT ![c] = <<b>>]
           /\ psfData' = [psfData EXCEPT ![b] = w]
           /\ hist' = [hist EXCEPT !.written =
                          Written(SharingBuffer(b) \cup {c}, "refine")]
    /\ pc' = IF loc[t].ci = 1 THEN pc ELSE [pc EXCEPT ![t] = "lock_push"]
    /\ loc' = [loc EXCEPT ![t].ci = IF @ = 1 THEN 2 ELSE 1]
    /\ UNCHANGED <<Inputs, phase, remainingNodes, visitedLeafs, m, mCounter, entropy,
                   regionDeconv>>

(* winners[ci].copyTo(regionTree[cid].psf): written into the buffer the      *)
(* child's header points to                                                  *)
StoreWinner(t) ==
    /\ pc[t] = "store_win"
    /\ LET c == Child(t)
           b == CopyTarget(c, loc[t].win[loc[t].ci])
       IN  /\ psfBuf' = [psfBuf EXCEPT ![c] = <<b>>]
           /\ psfData' = [psfData EXCEPT ![b] = loc[t].win[loc[t].ci]]
           /\ hist' = [hist EXCEPT !.written =
                          Written(SharingBuffer(b) \cup {c}, "refine")]
    /\ pc' = IF loc[t].ci = 1 THEN pc ELSE [pc EXCEPT ![t] = "lock_push"]
    /\ loc' = [loc EXCEPT ![t].ci = IF @ = 1 THEN 2 ELSE 1]
    /\ UNCHANGED <<Inputs, phase, remainingNodes, visitedLeafs, m, mCounter, entropy,
                   regionDeconv>>

-----------------------------------------------------------------------------
(* Reconstruction: deconvolve / deconvolveTopLevel with deconvolveRegion *)

Views == {"LEFT", "RIGHT"}

(* regionTree.getMask(n, mask, view): the pixels of the view that belong to n; *)
(* the image has one pixel class per leaf                                     *)
Mask(n, v) == LeavesOf(n) \ (IF v = "LEFT" THEN leftMissing ELSE rightMissing)

(* deconvolveIRLS of the whole image with region n's mask and kernel k,      *)
(* thresholded and converted to 8 bit                                        *)
Deconvolved(n, k, v) == <<"deconv", n, k, v>>

LeafIds == [i \in 1..layers |-> i - 1]

(* the prologue of deconvolve (leaf regions 0..layers-1) or of               *)
(* deconvolveTopLevel (the top-level regions): resize, fill the stack, start *)
(* the workers                                                               *)
StartDeconvolve ==
    /\ phase = "estimated"
    /\ \E kind \in {"leaf", "top"}, v \in Views :
          /\ call' = <<kind, v>>
          /\ regionDeconv' = ResizedTo(regionDeconv,
                                IF kind = "leaf" THEN layers ELSE NodeCount(tree))
          /\ regionStack' = regionStack \o (IF kind = "leaf" THEN LeafIds ELSE topLevelNodeIds)
    /\ phase' = "recon"
    /\ pc' = [t \in Threads |-> IF t \in Active THEN "lock_s" ELSE "off"]
    /\ hist' = [hist EXCEPT !.pops = [n \in Nodes |-> 0], !.processed = {}]
    /\ UNCHANGED <<tree, layers, nThreads, deconvAlgo, scene, seedFits, leftMissing,
                   rightMissing, sel, rel, Config, dst, remainingNodes, visitedLeafs, m, mCounter, psfBuf, psfData,
                   entropy, loc>>

Estimation == <<remainingNodes, visitedLeafs, mCounter, psfBuf, psfData, entropy>>

Setup == <<tree, layers, nThreads, deconvAlgo, scene, seedFits, leftMissing, rightMissing,
           sel, rel, Config>>

(* safeStackAccess: lock_guard<mutex> g(m) *)
StackLock(t) ==
    /\ pc[t] = "lock_s"
    /\ m = 0
    /\ m' = t
    /\ pc' = [pc EXCEPT ![t] = "access_s"]
    /\ UNCHANGED <<Setup, Estimation, phase, call, dst, regionStack, regionDeconv, loc, hist>>

(* an access that reads the top of the stack and leaves it there *)
safeStackAccessNoPop(t) ==
    /\ pc[t] = "access_s"
    /\ m' = 0
    /\ IF regionStack # <<>>
       THEN LET item == regionStack[Len(regionStack)] IN
            /\ loc' = [loc EXCEPT ![t].id = item]
            /\ hist' = [hist EXCEPT !.pops[item] = IF @ < 2 THEN @ + 1 ELSE @]
            /\ pc' = [pc EXCEPT ![t] = "deconv"]
       ELSE /\ pc' = [pc EXCEPT ![t] = "done"]
            /\ UNCHANGED <<loc, hist>>
    /\ UNCHANGED <<Setup, Estimation, phase, call, dst, regionDeconv, regionStack>>

(* safeStackAccess: top and pop, or report the empty stack, which ends       *)
(* deconvolveRegion's loop                                                   *)
safeStackAccess(t) ==
    /\ pc[t] = "access_s"
    /\ m' = 0
    /\ IF regionStack # <<>>
       THEN LET item == regionStack[Len(regionStack)] IN
            /\ regionStack' = SubSeq(regionStack, 1, Len(regionStack) - 1)
            /\ loc' = [loc EXCEPT ![t].id = item]
            /\ hist' = [hist EXCEPT !.pops[item] = @ + 1]
            /\ pc' = [pc EXCEPT ![t] = "deconv"]
       ELSE /\ pc' = [pc EXCEPT ![t] = "done"]
            /\ UNCHANGED <<regionStack, loc, hist>>
    /\ UNCHANGED <<Setup, Estimation, phase, call, dst, regionDeconv>>

(* the body of deconvolveRegion's loop: regionDeconv[i] is computed from the *)
(* region's psf                                                              *)
DeconvolveRegion(t) ==
    /\ pc[t] = "deconv"
    /\ LET i == loc[t].id IN
        /\ regionDeconv' = [regionDeconv EXCEPT ![i + 1] = Deconvolved(i, Data(i), call[2])]
        /\ hist' = [hist EXCEPT !.processed = @ \cup {i},
                                !.deconvCalls[i] = @ + 1]
    /\ pc' = [pc EXCEPT ![t] = "lock_s"]
    /\ loc' = [loc EXCEPT ![t] = NoLocals]
    /\ UNCHANGED <<Setup, Estimation, phase, call, dst, regionStack, m>>

(* a loop over every entry of regionDeconv in both calls *)
ComposedEveryEntry == [i \in 1..Len(regionDeconv) |-> i - 1]

(* the regions copied to dst after the join, in the order of the loop *)
ComposedIds ==
    IF call[1] = "leaf" THEN [i \in 1..Len(regionDeconv) |-> i - 1] ELSE topLevelNodeIds

(* regionDeconv[i].copyTo(dst, mask) for the first j regions *)
RECURSIVE Composed(_)
Composed(j) ==
    IF j = 0 THEN [p \in Leaves |-> <<>>]
    ELSE LET i == ComposedIds[j]
             before == Composed(j - 1)
         IN  [p \in Leaves |-> IF p \in Mask(i, call[2]) THEN regionDeconv[i + 1]
                               ELSE before[p]]

(* how many of the copies wrote pixel p *)
PixelWrites(p) == Cardinality({j \in 1..Len(ComposedIds) : p \in Mask(ComposedIds[j], call[2])})

(* the join and the loop that adds all region deconvs to dst *)
ComposeImage ==
    /\ phase = "recon"
    /\ AllDone
    /\ dst' = Composed(Len(ComposedIds))
    /\ hist' = [hist EXCEPT !.pixelWrites = [p \in Leaves |-> PixelWrites(p)]]
    /\ phase' = "finished"
    /\ UNCHANGED <<Setup, Estimation, call, regionStack, regionDeconv, m, pc, loc>>

-----------------------------------------------------------------------------
(* Construction, disparity estimation, region tree and top-level kernels *)

(* int of the build, modelled with IntBits bits in two's complement *)
IntBits == 4

MinInt == -(2 ^ (IntBits - 1))

MaxInt == 2 ^ (IntBits - 1) - 1

IntRange == MinInt..MaxInt

(* a % b of C++ for b > 0: the remainder has the sign of a *)
CppRem(a, b) == IF a >= 0 THEN a % b ELSE -((-a) % b)

(* The result of an int expression with the mathematical value x: x if it    *)
(* is representable; a signed overflow is undefined behaviour, after which   *)
(* the member may hold any int                                               *)
IntResults(x) == IF x \in IntRange THEN {x} ELSE IntRange

(* psfWidth((width % 2 == 0) ? width - 1 : width) *)
psfWidthInit(width) ==
    IF CppRem(width, 2) = 0 THEN IntResults(width - 1) ELSE {width}

(* layers((_layers % 2 == 0) ? _layers : _layers - 1) *)
layersInit(l) ==
    IF CppRem(l, 2) = 0 THEN {l} ELSE IntResults(l - 1)

(* the object before its constructor ran: no member has a value *)
Unconstructed ==
    /\ layers = <<>>
    /\ psfWidth = <<>>
    /\ phase = "start"
    /\ remainingNodes = <<>>
    /\ visitedLeafs = 0
    /\ m = 0
    /\ mCounter = 0
    /\ psfBuf = [n \in Nodes |-> <<>>]
    /\ psfData = [b \in Buffers |-> <<>>]
    /\ entropy = [n \in Nodes |-> <<>>]
    /\ regionDeconv = <<>>
    /\ regionStack = <<>>
    /\ call = <<>>
    /\ dst = <<>>
    /\ pc = [t \in Threads |-> "off"]
    /\ loc = [t \in Threads |-> NoLocals]
    /\ hist = [pops |-> [n \in Nodes |-> 0],
               processed |-> {},
               written |-> [n \in Nodes |-> <<>>],
               estCalls |-> [n \in Nodes |-> 0],
               deconvCalls |-> [n \in Nodes |-> 0],
               badRead |-> FALSE,
               pixelWrites |-> <<>>,
               cached |-> {},
               propPsf |-> <<>>]
    /\ sel = <<>>
    /\ rel = <<>>
    /\ disparityMaps = <<>>
    /\ error = <<>>
    /\ norm = <<>>

(* DepthDeblur::DepthDeblur: the member initialisers of psfWidth and layers *)
Construct ==
    /\ phase = "start"
    /\ psfWidth' \in psfWidthInit(request.width)
    /\ layers' \in layersInit(request.layers)
    /\ phase' = "constructed"
    /\ UNCHANGED <<tree, nThreads, deconvAlgo, scene, seedFits, leftMissing, rightMissing,
                   remainingNodes, visitedLeafs, m, mCounter, psfBuf, psfData, entropy,
                   regionDeconv, regionStack, call, dst, pc, loc, hist, sel, rel, request,
                   disparityMaps, error, norm>>

DisparityAlgos == {"SGBM", "MATCH", "OTHER"}

(* disparityEstimation releasing the stored maps before it tests the         *)
(* algorithm                                                                 *)
disparityEstimationReleasesMaps(algorithm) ==
    /\ phase \in {"constructed", "disparity"}
    /\ IF algorithm \in {"SGBM", "MATCH"}
       THEN /\ disparityMaps' = <<scene>>
            /\ phase' = "disparity"
            /\ error' = error
       ELSE /\ error' = <<"Invalid disparity algorithm">>
            /\ phase' = "failed"
            /\ disparityMaps' = <<>>
    /\ UNCHANGED <<tree, layers, nThreads, deconvAlgo, scene, seedFits, leftMissing,
                   rightMissing, remainingNodes, visitedLeafs, m, mCounter, psfBuf,
                   psfData, entropy, regionDeconv, regionStack, call, dst, pc, loc, hist,
                   sel, rel, request, psfWidth, norm>>

(* disparityEstimation: an algorithm other than SGBM and MATCH throws before *)
(* the maps are stored; a valid one stores the maps of the scene             *)
disparityEstimation(algorithm) ==
    /\ phase \in {"constructed", "disparity"}
    /\ IF algorithm \in {"SGBM", "MATCH"}
       THEN /\ disparityMaps' = <<scene>>
            /\ phase' = "disparity"
            /\ error' = error
       ELSE /\ error' = <<"Invalid disparity algorithm">>
            /\ phase' = "failed"
            /\ disparityMaps' = disparityMaps
    /\ UNCHANGED <<tree, layers, nThreads, deconvAlgo, scene, seedFits, leftMissing,
                   rightMissing, remainingNodes, visitedLeafs, m, mCounter, psfBuf,
                   psfData, entropy, regionDeconv, regionStack, call, dst, pc, loc, hist,
                   sel, rel, request, psfWidth, norm>>

(* regionTreeReconstruction: the tree is built from the stored maps *)
regionTreeReconstruction ==
    /\ phase = "disparity"
    /\ phase' = "tree"
    /\ UNCHANGED <<Inputs, Estimation, m, pc, loc, regionDeconv, hist>>

(* the index i of the for loop of toplevelKernelEstimation: the nodes before *)
(* i have their kernel                                                       *)
SeedIndex ==
    1 + Cardinality({j \in 1..Len(topLevelNodeIds) : psfBuf[topLevelNodeIds[j]] # <<>>})

(* toplevelKernelEstimation with the test of kernelImage.data moved behind   *)
(* the copy into the node                                                    *)
toplevelKernelEstimationLateCheck(found) ==
    /\ phase = "tree"
    /\ LET i == SeedIndex
           id == topLevelNodeIds[i]
       IN /\ psfBuf' = [psfBuf EXCEPT ![id] = <<id>>]
          /\ psfData' = [psfData EXCEPT ![id] = IF found THEN SeedKernel(id) ELSE <<>>]
          /\ hist' = [hist EXCEPT !.written[id] = <<"seed">>]
          /\ IF found
             THEN /\ phase' = IF i = Len(topLevelNodeIds) THEN "seeded" ELSE "tree"
                  /\ error' = error
             ELSE /\ error' = <<"Can not load kernel!", i>>
                  /\ phase' = "failed"
    /\ UNCHANGED <<tree, layers, nThreads, deconvAlgo, scene, seedFits, leftMissing,
                   rightMissing, remainingNodes, visitedLeafs, m, mCounter, entropy,
                   regionDeconv, regionStack, call, dst, pc, loc, sel, rel, request,
                   psfWidth, disparityMaps, norm>>

(* One iteration of the loop of toplevelKernelEstimation: imread finds the   *)
(* file kernel<i>.png or not; without it the function throws, with it the    *)
(* normalised kernel is copied into the node                                 *)
toplevelKernelEstimation(found) ==
    /\ phase = "tree"
    /\ LET i == SeedIndex
           id == topLevelNodeIds[i]
       IN IF found
          THEN /\ psfBuf' = [psfBuf EXCEPT ![id] = <<id>>]
               /\ psfData' = [psfData EXCEPT ![id] = SeedKernel(id)]
               /\ hist' = [hist EXCEPT !.written[id] = <<"seed">>]
               /\ phase' = IF i = Len(topLevelNodeIds) THEN "seeded" ELSE "tree"
               /\ error' = error
          ELSE /\ error' = <<"Can not load kernel!", i>>
               /\ phase' = "failed"
               /\ UNCHANGED <<psfBuf, psfData, hist>>
    /\ UNCHANGED <<tree, layers, nThreads, deconvAlgo, scene, seedFits, leftMissing,
                   rightMissing, remainingNodes, visitedLeafs, m, mCounter, entropy,
                   regionDeconv, regionStack, call, dst, pc, loc, sel, rel, request,
                   psfWidth, disparityMaps, norm>>

MainSetup ==
    \/ Construct
    \/ \E a \in DisparityAlgos : disparityEstimation(a)
    \/ regionTreeReconstruction
    \/ \E found \in BOOLEAN : toplevelKernelEstimation(found)

-----------------------------------------------------------------------------
(* Specification *)

(* the state after construction, disparity estimation, region-tree          *)
(* construction and toplevelKernelEstimation, before midLevelKernelEstimation *)
Seeded ==
    /\ layers = LeafCount(tree)
    /\ phase = "seeded"
    /\ remainingNodes = <<>>
    /\ visitedLeafs = 0
    /\ m = 0
    /\ mCounter = 0
    /\ psfBuf = [n \in Nodes |-> IF n \in TopLevel THEN <<n>> ELSE <<>>]
    /\ psfData = [b \in Buffers |-> IF b \in TopLevel THEN SeedKernel(b) ELSE <<>>]
    /\ entropy = [n \in Nodes |-> <<>>]
    /\ regionDeconv = <<>>
    /\ regionStack = <<>>
    /\ call = <<>>
    /\ dst = <<>>
    /\ pc = [t \in Threads |-> "off"]
    /\ loc = [t \in Threads |-> NoLocals]
    /\ hist = [pops |-> [n \in Nodes |-> 0],
               processed |-> {},
               written |-> [n \in Nodes |-> IF n \in TopLevel THEN <<"seed">> ELSE <<>>],
               estCalls |-> [n \in Nodes |-> 0],
               deconvCalls |-> [n \in Nodes |-> 0],
               badRead |-> FALSE,
               pixelWrites |-> <<>>,
               cached |-> {},
               propPsf |-> <<>>]
    /\ rel = <<>>
    /\ request = [width |-> 3, layers |-> LeafCount(tree)]
    /\ psfWidth = 3
    /\ disparityMaps = <<scene>>
    /\ error = <<>>

(* Every input combination runs with one and with two threads; with more    *)
(* threads the four-leaf trees run on the two mask configurations without    *)
(* and with the most empty masks                                             *)
Init ==
    /\ tree \in TreeShapes
    /\ nThreads \in 1..MaxThreads
    /\ deconvAlgo \in {"FFT", "IRLS"}
    /\ scene \in Scenes
    /\ seedFits \in BOOLEAN
    /\ \E mc \in MaskConfigs(tree) :
          /\ leftMissing = {l \in Leaves : l < mc[1]}
          /\ rightMissing = {l \in Leaves : l >= LeafCount(tree) - mc[2]}
          /\ (nThreads > 2 /\ tree # "pair") =>
                (mc \in {<<0, 0>>, <<2, 2>>} /\ deconvAlgo = "IRLS" /\ scene = 1 /\ seedFits)
    /\ request = [width |-> 3, layers |-> LeafCount(tree)]
    /\ Unconstructed

PassWorker(t) ==
    \/ LoopTest(t)
    \/ QueueLock(t)
    \/ safeQueueAccess(t)
    \/ ChildMasks(t)
    \/ EstimateChildPSF(t)
    \/ StoreChildPSF(t)
    \/ ComputeEntropies(t)
    \/ PushLock(t)
    \/ PushChildren(t)
    \/ CounterLock(t)
    \/ CountLeaf(t)
    \/ ResizeBegin(t)
    \/ ResizeEnd(t)
    \/ BuildCandidates(t)
    \/ SelectWinner(t)
    \/ StoreWinner(t)

ReconWorker(t) ==
    \/ StackLock(t)
    \/ safeStackAccess(t)
    \/ DeconvolveRegion(t)

Next ==
    \/ MainSetup
    \/ StartPropagation
    \/ StartRefinement
    \/ FinishEstimation
    \/ StartDeconvolve
    \/ ComposeImage
    \/ \E t \in Threads : PassWorker(t)
    \/ \E t \in Threads : ReconWorker(t)

Spec == Init /\ [][Next]_vars


-----------------------------------------------------------------------------
(* The scan of psfSelection on its own: every candidate list of 1..3 entries *)
(* with every assignment of energies in [0, 2]                               *)

MaxCandidates == 3

EnergyLevels == 0..(2 * EnergyScale)

EnergyLists == UNION {[1..n -> EnergyLevels] : n \in 1..MaxCandidates}

InitSel ==
    /\ sel \in {ScanStart(e) : e \in EnergyLists}
    /\ tree = "pair"
    /\ nThreads = 1
    /\ deconvAlgo = "FFT"
    /\ scene = 0
    /\ seedFits = TRUE
    /\ leftMissing = {}
    /\ rightMissing = {}
    /\ norm = <<>>
    /\ Seeded

(* one pass through the body of the for loop of psfSelection *)
SelIterate ==
    /\ sel.i <= Len(sel.energies)
    /\ sel' = ScanStep(sel)
    /\ UNCHANGED <<tree, layers, nThreads, deconvAlgo, scene, seedFits, leftMissing,
                   rightMissing, phase, remainingNodes, visitedLeafs, m, mCounter, psfBuf,
                   psfData, entropy, regionDeconv, regionStack, call, dst, pc, loc, hist,
                   rel, Config>>

NextSel == SelIterate

SpecSel == InitSel /\ [][NextSel]_vars

-----------------------------------------------------------------------------
(* The constructor on its own: every pair of int arguments width and _layers *)

InitCtor ==
    /\ request \in [width : IntRange, layers : IntRange]
    /\ tree = "pair"
    /\ nThreads = 1
    /\ deconvAlgo = "FFT"
    /\ scene = 0
    /\ seedFits = TRUE
    /\ leftMissing = {}
    /\ rightMissing = {}
    /\ Unconstructed

NextCtor == Construct

SpecCtor == InitCtor /\ [][NextCtor]_vars

-----------------------------------------------------------------------------
(* The normalisation of a kernel on its own, for every size of the inverse   *)
(* transform from psfWidth to KernelSide in both axes. A kernel is a matrix of *)
(* integers indexed by <<row, column>> from 0; a stored PSF is the matrix    *)
(* num of numerators over the common denominator den, the entries being      *)
(* num[c] / den computed exactly; den = 0 stands for a division by zero      *)

KernelSide == 4

MaxGray == 2

Grid(rows, cols) == (0..(rows - 1)) \X (0..(cols - 1))

Cells(n) == Grid(n, n)

RECURSIVE SumCells(_, _)
SumCells(k, S) ==
    IF S = {} THEN 0
    ELSE LET c == CHOOSE x \in S : TRUE IN k[c] + SumCells(k, S \ {c})

(* sum(kernel)[0] *)
Mass(k) == SumCells(k, DOMAIN k)

(* threshold(kernel, kernel, 0.0, -1, THRESH_TOZERO) *)
ThresholdToZero(k) == [c \in DOMAIN k |-> IF k[c] > 0 THEN k[c] ELSE 0]

(* Mat(kernel, Rect(x0, y0, width, height)) *)
Rect(k, x0, y0, width, height) ==
    [rows |-> height, cols |-> width,
     at |-> [c \in Grid(height, width) |-> k[<<c[1] + y0, c[2] + x0>>]]]

hconcat(a, b) ==
    [rows |-> a.rows, cols |-> a.cols + b.cols,
     at |-> [c \in Grid(a.rows, a.cols + b.cols) |->
                IF c[2] < a.cols THEN a.at[c] ELSE b.at[<<c[1], c[2] - a.cols>>]]]

vconcat(a, b) ==
    [rows |-> a.rows + b.rows, cols |-> a.cols,
     at |-> [c \in Grid(a.rows + b.rows, a.cols) |->
                IF c[1] < a.rows THEN a.at[c] ELSE b.at[<<c[1] - a.rows, c[2]>>]]]

(* the four slices put together in their old places *)
QuadrantsInPlace(k, x, y, w) ==
    LET hs1 == (w - 1) \div 2
        hs2 == (w - 1) \div 2
        q0 == Rect(k, 0, 0, x - hs1, y - hs2)
        q1 == Rect(k, x - hs1, 0, hs1, y - hs2)
        q2 == Rect(k, 0, y - hs2, x - hs1, hs2)
        q3 == Rect(k, x - hs1, y - hs2, hs1, hs2)
    IN vconcat(hconcat(q0, q1), hconcat(q2, q3)).at

(* q0..q3 of the kernel of x columns and y rows; hconcat(q3, q2, kernelSwap), *)
(* hconcat(q1, q0, tmp), vconcat(kernelSwap, tmp, kernelSwap)                *)
QuadrantSwap(k, x, y, w) ==
    LET hs1 == (w - 1) \div 2
        hs2 == (w - 1) \div 2
        q0 == Rect(k, 0, 0, x - hs1, y - hs2)
        q1 == Rect(k, x - hs1, 0, hs1, y - hs2)
        q2 == Rect(k, 0, y - hs2, x - hs1, hs2)
        q3 == Rect(k, x - hs1, y - hs2, hs1, hs2)
    IN vconcat(hconcat(q3, q2), hconcat(q1, q0)).at

(* kernel(Rect(0, 0, psfWidth, psfWidth)) *)
KernelROI(k, w) == [c \in Cells(w) |-> k[c]]

(* psf /= sum(psf)[0] and kernelImage /= sum(kernelImage)[0] *)
DivideByMass(k) == [num |-> k, den |-> Mass(k)]

(* the end of jointPSFEstimation with the division before the cut *)
NormalisedBeforeCut(raw, x, y, w) ==
    LET swapped == QuadrantSwap(ThresholdToZero(raw), x, y, w)
    IN [num |-> KernelROI(swapped, w), den |-> Mass(swapped)]

(* the end of jointPSFEstimation, from the inverse dft on *)
NormalisedEstimate(raw, x, y, w) ==
    DivideByMass(KernelROI(QuadrantSwap(ThresholdToZero(raw), x, y, w), w))

(* matrices with at most two entries other than 0 *)
Sparse(rows, cols, values) ==
    {[c \in Grid(rows, cols) |-> IF c = p THEN a ELSE IF c = q THEN b ELSE 0] :
        <<p, q, a, b>> \in Grid(rows, cols) \X Grid(rows, cols) \X values \X values}

InitNorm ==
    /\ tree = "pair"
    /\ nThreads = 1
    /\ deconvAlgo = "FFT"
    /\ scene = 0
    /\ seedFits = TRUE
    /\ leftMissing = {}
    /\ rightMissing = {}
    /\ sel = <<>>
    /\ Seeded
    /\ \/ \E img \in Sparse(psfWidth, psfWidth, 0..MaxGray) :
              norm = [kind |-> "load", raw |-> img, rows |-> psfWidth, cols |-> psfWidth,
                      psf |-> <<>>, copy |-> <<>>]
       \/ \E x, y \in psfWidth..KernelSide :
              \E k \in Sparse(y, x, -1..MaxGray) :
                  norm = [kind |-> "joint", raw |-> k, rows |-> y, cols |-> x,
                          psf |-> <<>>, copy |-> <<>>]

(* kernelImage /= sum(kernelImage)[0]; kernelImage.copyTo(regionTree[id].psf) *)
NormaliseLoaded ==
    /\ norm.kind = "load"
    /\ norm.psf = <<>>
    /\ norm' = [norm EXCEPT !.psf = DivideByMass(norm.raw)]
    /\ UNCHANGED <<tree, layers, nThreads, deconvAlgo, scene, seedFits, leftMissing,
                   rightMissing, phase, remainingNodes, visitedLeafs, m, mCounter, psfBuf,
                   psfData, entropy, regionDeconv, regionStack, call, dst, pc, loc, hist,
                   sel, rel, request, psfWidth, disparityMaps, error>>

(* jointPSFEstimation from the inverse dft to psf /= sum(psf)[0] *)
NormaliseEstimate ==
    /\ norm.kind = "joint"
    /\ norm.psf = <<>>
    /\ norm' = [norm EXCEPT !.psf = NormalisedEstimate(norm.raw, norm.cols, norm.rows, psfWidth)]
    /\ UNCHANGED <<tree, layers, nThreads, deconvAlgo, scene, seedFits, leftMissing,
                   rightMissing, phase, remainingNodes, visitedLeafs, m, mCounter, psfBuf,
                   psfData, entropy, regionDeconv, regionStack, call, dst, pc, loc, hist,
                   sel, rel, request, psfWidth, disparityMaps, error>>

(* a stored PSF is copied into another node: the inheritance of the parent's *)
(* PSF and winner.copyTo(regionTree[cid].psf) of the refinement              *)
CopyStored ==
    /\ norm.psf # <<>>
    /\ norm.copy = <<>>
    /\ norm' = [norm EXCEPT !.copy = norm.psf]
    /\ UNCHANGED <<tree, layers, nThreads, deconvAlgo, scene, seedFits, leftMissing,
                   rightMissing, phase, remainingNodes, visitedLeafs, m, mCounter, psfBuf,
                   psfData, entropy, regionDeconv, regionStack, call, dst, pc, loc, hist,
                   sel, rel, request, psfWidth, disparityMaps, error>>

NextNorm == NormaliseLoaded \/ NormaliseEstimate \/ CopyStored

SpecNorm == InitNorm /\ [][NextNorm]_vars

-----------------------------------------------------------------------------
(* isReliablePSF on its own: the leaves of a tree with any entropies of      *)
(* 0..MaxEntropy, and one call for any of them                               *)

MaxEntropy == 5

InitRel ==
    /\ tree \in {"pair", "quad"}
    /\ nThreads = 1
    /\ deconvAlgo = "FFT"
    /\ scene = 0
    /\ seedFits = TRUE
    /\ leftMissing = {}
    /\ rightMissing = {}
    /\ layers = LeafCount(tree)
    /\ phase = "refine"
    /\ remainingNodes = <<>>
    /\ visitedLeafs = 0
    /\ m = 0
    /\ mCounter = 0
    /\ psfBuf = [n \in Nodes |-> <<n>>]
    /\ psfData = [b \in Buffers |-> IF b \in Nodes THEN SeedKernel(b) ELSE <<>>]
    /\ \E e \in [Leaves -> 0..MaxEntropy] :
          entropy = [n \in Nodes |-> IF n \in Leaves THEN <<e[n]>>
                                     ELSE IF n \in TopLevel THEN <<>> ELSE <<1>>]
    /\ regionDeconv = <<>>
    /\ regionStack = <<>>
    /\ call = <<>>
    /\ dst = <<>>
    /\ pc = [t \in Threads |-> "off"]
    /\ loc = [t \in Threads |-> NoLocals]
    /\ hist = [pops |-> [n \in Nodes |-> 0],
               processed |-> {},
               written |-> [n \in Nodes |-> <<>>],
               estCalls |-> [n \in Nodes |-> 0],
               deconvCalls |-> [n \in Nodes |-> 0],
               badRead |-> FALSE,
               pixelWrites |-> <<>>,
               cached |-> {},
               propPsf |-> <<>>]
    /\ sel = <<>>
    /\ rel = <<>>
    /\ request = [width |-> 3, layers |-> LeafCount(tree)]
    /\ psfWidth = 3
    /\ disparityMaps = <<scene>>
    /\ error = <<>>
    /\ norm = <<>>

(* if (isReliablePSF(sid)) of candidateSelection, for a leaf *)
ReliabilityTest ==
    /\ rel = <<>>
    /\ \E n \in Leaves : rel' = [id |-> n, reliable |-> isReliablePSF(n)]
    /\ UNCHANGED <<tree, layers, nThreads, deconvAlgo, scene, seedFits, leftMissing,
                   rightMissing, phase, remainingNodes, visitedLeafs, m, mCounter, psfBuf,
                   psfData, entropy, regionDeconv, regionStack, call, dst, pc, loc, hist,
                   sel, Config>>

NextRel == ReliabilityTest

SpecRel == InitRel /\ [][NextRel]_vars

-----------------------------------------------------------------------------
(* One call of midLevelKernelEstimation under fair scheduling: every thread  *)
(* that can take a step again and again eventually takes one, which includes *)
(* a thread that waits for a mutex other threads keep locking and unlocking  *)

InitLive ==
    /\ tree \in {"pair", "twoTops"}
    /\ nThreads \in 1..MaxThreads
    /\ (tree = "twoTops" => nThreads <= 2)
    /\ deconvAlgo = "IRLS"
    /\ scene = 0
    /\ seedFits = TRUE
    /\ leftMissing = {}
    /\ rightMissing = {}
    /\ sel = <<>>
    /\ norm = <<>>
    /\ Seeded

MainPass == StartPropagation \/ StartRefinement \/ FinishEstimation

NextLive == MainPass \/ \E t \in Threads : PassWorker(t)

Fairness == WF_vars(MainPass) /\ \A t \in Threads : SF_vars(PassWorker(t))

SpecLive == InitLive /\ [][NextLive]_vars /\ Fairness

-----------------------------------------------------------------------------
(* midLevelKernelEstimation, under the same fair scheduling, on a tree whose *)
(* top-level nodes reach two leaves fewer than layers                        *)

InitFew ==
    /\ tree \in {"pair", "quad"}
    /\ nThreads \in 1..MaxThreads
    /\ (tree = "quad" => nThreads <= 2)
    /\ deconvAlgo = "IRLS"
    /\ scene = 0
    /\ seedFits = TRUE
    /\ \E mc \in {<<0, 0>>, <<1, 0>>} :
          /\ leftMissing = {l \in Leaves : l < mc[1]}
          /\ rightMissing = {}
    /\ layers = LeafCount(tree) + 2
    /\ request = [width |-> 3, layers |-> LeafCount(tree) + 2]
    /\ psfWidth = 3
    /\ disparityMaps = <<scene>>
    /\ error = <<>>
    /\ norm = <<>>
    /\ sel = <<>>
    /\ rel = <<>>
    /\ phase = "seeded"
    /\ remainingNodes = <<>>
    /\ visitedLeafs = 0
    /\ m = 0
    /\ mCounter = 0
    /\ psfBuf = [n \in Nodes |-> IF n \in TopLevel THEN <<n>> ELSE <<>>]
    /\ psfData = [b \in Buffers |-> IF b \in TopLevel THEN SeedKernel(b) ELSE <<>>]
    /\ entropy = [n \in Nodes |-> <<>>]
    /\ regionDeconv = <<>>
    /\ regionStack = <<>>
    /\ call = <<>>
    /\ dst = <<>>
    /\ pc = [t \in Threads |-> "off"]
    /\ loc = [t \in Threads |-> NoLocals]
    /\ hist = [pops |-> [n \in Nodes |-> 0],
               processed |-> {},
               written |-> [n \in Nodes |-> IF n \in TopLevel THEN <<"seed">> ELSE <<>>],
               estCalls |-> [n \in Nodes |-> 0],
               deconvCalls |-> [n \in Nodes |-> 0],
               badRead |-> FALSE,
               pixelWrites |-> <<>>,
               cached |-> {},
               propPsf |-> <<>>]

(* the steps of midLevelKernelEstimationNode *)
PropagationWorker(t) ==
    \/ LoopTest(t)
    \/ QueueLock(t)
    \/ safeQueueAccess(t)
    \/ ChildMasks(t)
    \/ EstimateChildPSF(t)
    \/ StoreChildPSF(t)
    \/ ComputeEntropies(t)
    \/ PushLock(t)
    \/ PushChildren(t)
    \/ CounterLock(t)
    \/ CountLeaf(t)

NextFew == StartPropagation \/ \E t \in Threads : PropagationWorker(t)

FairFew == WF_vars(StartPropagation) /\ \A t \in Threads : SF_vars(PropagationWorker(t))

SpecFew == InitFew /\ [][NextFew]_vars /\ FairFew

-----------------------------------------------------------------------------
(* A whole run, estimation followed by one reconstruction call, under the    *)
(* same fair scheduling                                                      *)

MainThread ==
    StartPropagation \/ StartRefinement \/ FinishEstimation \/ StartDeconvolve \/ ComposeImage

NextRun == MainThread \/ \E t \in Threads : (PassWorker(t) \/ ReconWorker(t))

FairRun ==
    WF_vars(MainThread) /\ \A t \in Threads : SF_vars(PassWorker(t) \/ ReconWorker(t))

SpecRun == InitLive /\ [][NextRun]_vars /\ FairRun

-----------------------------------------------------------------------------
(* The single-threaded run, as a function: the nodes leave the queue in      *)
(* breadth-first order and every step works on the result of the step before *)

SeqSeeded ==
    [buf  |-> [n \in Nodes |-> IF n \in TopLevel THEN <<n>> ELSE <<>>],
     data |-> [b \in Buffers |-> IF b \in TopLevel THEN SeedKernel(b) ELSE <<>>],
     ent  |-> [n \in Nodes |-> <<>>]]

(* one child of the propagation step of node id *)
SeqPropChild(s, id, c) ==
    IF MasksNonEmpty(c)
    THEN LET k == JointEstimate(c, DataIn(s.buf, s.data, id))
             b == CopyTargetIn(s.buf, s.data, c, k)
         IN  [s EXCEPT !.buf[c] = <<b>>, !.data[b] = k]
    ELSE [s EXCEPT !.buf[c] = s.buf[id]]

SeqPropNode(s, id) ==
    LET c1 == children(id)[1]
        c2 == children(id)[2]
        s2 == SeqPropChild(SeqPropChild(s, id, c1), id, c2)
    IN  [s2 EXCEPT !.ent[c1] = <<computeEntropy(DataIn(s2.buf, s2.data, c1))>>,
                   !.ent[c2] = <<computeEntropy(DataIn(s2.buf, s2.data, c2))>>]

(* the winner psfSelection copies out for child c with sibling sid *)
SeqWinner(s, c, sid) ==
    LET cs == CandidatesIn(s.buf, s.ent, c, sid)
    IN  HeaderData(s.data, cs[psfSelection(EnergiesIn(s.data, c, cs)).winner])

SeqStore(s, c, w) ==
    LET b == CopyTargetIn(s.buf, s.data, c, w)
    IN  [s EXCEPT !.buf[c] = <<b>>, !.data[b] = w]

SeqRefineNode(s, id) ==
    LET c1 == children(id)[1]
        c2 == children(id)[2]
    IN  SeqStore(SeqStore(s, c1, SeqWinner(s, c1, c2)), c2, SeqWinner(s, c2, c1))

RECURSIVE SeqPass(_, _, _)
SeqPass(s, queue, pass) ==
    IF queue = <<>> THEN s
    ELSE LET id == Head(queue) IN
         IF IsInternal(id)
         THEN SeqPass(IF pass = "prop" THEN SeqPropNode(s, id) ELSE SeqRefineNode(s, id),
                      Tail(queue) \o children(id), pass)
         ELSE SeqPass(s, Tail(queue), pass)

SeqEstimated == SeqPass(SeqPass(SeqSeeded, topLevelNodeIds, "prop"), topLevelNodeIds, "refine")

(* the image the single-threaded reconstruction composes for the call from  *)
(* the kernels of e                                                          *)
SeqImage(e) ==
    [p \in Leaves |->
        LET owners == {i \in (IF call[1] = "leaf" THEN Leaves ELSE TopLevel) :
                          p \in Mask(i, call[2])}
        IN  IF owners = {} THEN <<>>
            ELSE LET i == CHOOSE x \in owners : TRUE
                 IN  Deconvolved(i, DataIn(e.buf, e.data, i), call[2])]

-----------------------------------------------------------------------------
(* Properties *)

InPass == phase \in {"prop", "refine"}

Estimated == phase \in {"estimated", "recon", "finished"}

Occurrences(q, n) == Cardinality({i \in 1..Len(q) : q[i] = n})

Assigned(n) == psfBuf[n] # <<>> /\ Data(n) # <<>>

(* the worker is between the pop of a node and the end of the node's step *)
InStep(t) ==
    pc[t] \in {"child", "estimate", "store", "entropy", "candidates", "select", "store_win",
               "lock_push", "push", "lock_c", "count"}

(* C1: under fair scheduling both passes of midLevelKernelEstimation end,    *)
(* that is every worker leaves its loop, and a worker that has left its loop *)
(* sees the leaf counter at layers                                           *)
C1_PassesTerminate ==
    /\ <>(phase = "estimated")
    /\ [](\A t \in Threads : (InPass /\ pc[t] = "done") => visitedLeafs = layers)

(* both threads have left the loop of the refinement pass of the tree with   *)
(* two top-level nodes                                                       *)
C1_Witness ==
    /\ phase = "refine" /\ tree = "twoTops" /\ nThreads = 2
    /\ AllDone /\ visitedLeafs = layers

(* C2: once a worker has left its loop the queue is empty, no other worker   *)
(* is inside the step of a node, and every node has been processed           *)
C2_NoPrematureExit ==
    \A t \in Threads :
        (InPass /\ pc[t] = "done") =>
            /\ remainingNodes = <<>>
            /\ \A u \in Active : ~InStep(u)
            /\ hist.processed = Nodes

(* one worker has left the loop while another, which found the queue empty   *)
(* before, has not tested the counter again yet                              *)
C2_Witness ==
    /\ InPass
    /\ \E t, u \in Active : pc[t] = "done" /\ pc[u] \in {"loop", "lock_q", "access_q"}

(* C3: the kernels midLevelKernelEstimation leaves and the image composed    *)
(* from them are those of the single-threaded run, for every thread count    *)
(* and every interleaving                                                    *)
C3_Deterministic ==
    Estimated =>
        LET e == SeqEstimated IN
        /\ \A n \in Nodes : Data(n) = DataIn(e.buf, e.data, n)
        /\ phase = "finished" => dst = SeqImage(e)

(* a finished run of two threads on the four-leaf tree in which refinement   *)
(* replaced a kernel of the propagation pass                                 *)
C3_Witness ==
    /\ phase = "finished" /\ nThreads = 2 /\ tree = "quad" /\ call[1] = "leaf"
    /\ \E n \in Nodes \ TopLevel :
          MasksNonEmpty(n) /\ Data(n) # JointEstimate(n, SeedKernel(parent(n)))
                          /\ (parent(n) \in TopLevel)

(* C4: an id is in the queue at most once, and is popped exactly once in     *)
(* each pass                                                                 *)
C4_PoppedOnce ==
    InPass =>
        /\ \A n \in Nodes : Occurrences(remainingNodes, n) + hist.pops[n] <= 1
        /\ AllDone => \A n \in Nodes : hist.pops[n] = 1

(* the refinement pass of two threads over the tree with two top-level nodes *)
(* has ended                                                                 *)
C4_Witness ==
    /\ phase = "refine" /\ nThreads = 2 /\ tree = "twoTops" /\ AllDone
    /\ \A n \in Nodes : hist.pops[n] = 1

(* C5: every id in the queue or held by a worker has its PSF assigned, in    *)
(* the propagation pass with its entropy, and no step has read a PSF that    *)
(* was not assigned                                                          *)
C5_PushAfterWrite ==
    InPass =>
        /\ \A i \in 1..Len(remainingNodes) :
              /\ Assigned(remainingNodes[i])
              /\ remainingNodes[i] \notin TopLevel => entropy[remainingNodes[i]] # <<>>
        /\ \A t \in Active : loc[t].id # NoChild => Assigned(loc[t].id)
        /\ ~hist.badRead

(* a worker holds an estimated child of the propagation pass while its       *)
(* sibling is still in the queue                                             *)
C5_Witness ==
    /\ phase = "prop" /\ nThreads = 2
    /\ \E t \in Active :
          /\ loc[t].id \notin TopLevel /\ loc[t].id # NoChild
          /\ MasksNonEmpty(loc[t].id)
          /\ \E i \in 1..Len(remainingNodes) : parent(remainingNodes[i]) = parent(loc[t].id)

(* the buffers and headers the step a worker is about to take writes, and    *)
(* the buffers it reads                                                      *)
BufWrites(t) ==
    IF pc[t] = "store" THEN {psfBuf[Child(t)][1]}
    ELSE IF pc[t] = "store_win" THEN {CopyTarget(Child(t), loc[t].win[loc[t].ci])}
    ELSE {}

HeaderWrites(t) ==
    IF pc[t] \in {"estimate", "store_win"} \/ (pc[t] = "child" /\ ~MasksNonEmpty(Child(t)))
    THEN {Child(t)} ELSE {}

BufReads(t) ==
    IF pc[t] = "estimate" THEN {psfBuf[loc[t].id][1]}
    ELSE IF pc[t] = "entropy"
         THEN {psfBuf[children(loc[t].id)[i]][1] : i \in 1..2}
    ELSE IF pc[t] = "select"
         THEN LET cs == loc[t].cands[loc[t].ci] IN {cs[i][1] : i \in 1..Len(cs)}
    ELSE {}

PsfWritten(t, n) ==
    n \in HeaderWrites(t) \/ (psfBuf[n] # <<>> /\ psfBuf[n][1] \in BufWrites(t))

PsfRead(t, n) == psfBuf[n] # <<>> /\ psfBuf[n][1] \in BufReads(t)

EntropyWritten(t, n) ==
    pc[t] = "entropy" /\ n \in {children(loc[t].id)[i] : i \in 1..2}

EntropyRead(t, n) ==
    pc[t] = "candidates" /\ n \in getLevelPeers(children(loc[t].id)[1])

(* C6: no two workers are about to write the PSF or the entropy of the same  *)
(* node, and no worker is about to read a node's PSF or entropy that another *)
(* is about to write                                                         *)
C6_NoConcurrentAccess ==
    InPass =>
        \A n \in Nodes : \A t, u \in Active :
            t # u =>
                /\ ~(PsfWritten(t, n) /\ (PsfWritten(u, n) \/ PsfRead(u, n)))
                /\ ~(EntropyWritten(t, n) /\ (EntropyWritten(u, n) \/ EntropyRead(u, n)))

(* C7: after midLevelKernelEstimation the PSF of every node below the top    *)
(* level has been written once by the propagation pass and once by the       *)
(* refinement pass                                                           *)
C7_WrittenTwice ==
    Estimated => \A n \in Nodes \ TopLevel : hist.written[n] = <<"prop", "refine">>

(* C8: after midLevelKernelEstimation every top-level node holds the kernel  *)
(* it was seeded with                                                        *)
C8_RootKeepsSeed ==
    Estimated => \A r \in TopLevel : Data(r) = SeedKernel(r)

EmptyMask(n) == \E v \in Views : Mask(n, v) = {}

(* C9 as stated: a node with an empty mask has its parent's PSF after both   *)
(* passes, and no joint estimation was called for it                         *)
C9_EndsWithParentPSF ==
    Estimated =>
        \A n \in Nodes \ TopLevel :
            EmptyMask(n) => Data(n) = Data(parent(n)) /\ hist.estCalls[n] = 0

(* C9, amended: no joint estimation is ever called for a node with an empty  *)
(* mask, and when the propagation pass has ended the node's PSF is its       *)
(* parent's                                                                  *)
C9_InheritsInPropagation ==
    \A n \in Nodes \ TopLevel :
        EmptyMask(n) =>
            /\ hist.estCalls[n] = 0
            /\ (phase = "prop" /\ AllDone) =>
                  Assigned(n) /\ psfBuf[n] = psfBuf[parent(n)] /\ Data(n) = Data(parent(n))

(* the propagation pass has ended on a four-leaf tree with a node of empty   *)
(* RIGHT mask whose sibling was estimated                                    *)
C9_Witness ==
    /\ phase = "prop" /\ AllDone /\ tree = "quad"
    /\ \E n \in Nodes \ TopLevel :
          /\ Mask(n, "RIGHT") = {} /\ Mask(n, "LEFT") # {}
          /\ Data(n) = Data(parent(n))
          /\ \E x \in Nodes : parent(x) = parent(n) /\ hist.estCalls[x] = 1

(* C10: when the scan of psfSelection has ended the winner has the smallest  *)
(* energy of the list, every candidate before it has a larger one, and its   *)
(* energy is at most that of the own candidate                               *)
C10_SmallestEarliest ==
    (sel # <<>> /\ sel.i > Len(sel.energies)) =>
        LET e == sel.energies
            w == sel.winner
        IN  /\ w \in 1..Len(e)
            /\ \A i \in 1..Len(e) : e[w] <= e[i]
            /\ \A i \in 1..(w - 1) : e[i] > e[w]
            /\ e[w] <= e[1]

(* a finished scan of three candidates in which parent and sibling tie below *)
(* the own candidate and the parent wins                                     *)
C10_Witness ==
    /\ sel # <<>> /\ sel.i > Len(sel.energies) /\ Len(sel.energies) = 3
    /\ sel.energies[2] = sel.energies[3] /\ sel.energies[2] < sel.energies[1]
    /\ sel.winner = 2

(* C11: isReliablePSF(n) answers whether entropy(n) - mean < 0.2 * mean for  *)
(* the mean entropy of n's level peers (here multiplied by 5 * the number of *)
(* peers); with the peer entropies 1, 1, 1, 5 the nodes of entropy 1 are     *)
(* reliable and the node of entropy 5 is not                                 *)
C11_ReliableBelowThreshold ==
    rel # <<>> =>
        LET peers == getLevelPeers(rel.id)
            k == Cardinality(peers)
            s == SumEntropy(entropy, peers)
            e == entropy[rel.id][1]
        IN  /\ rel.reliable <=> (5 * (k * e - s) < s)
            /\ ( /\ k = 4
                 /\ Cardinality({p \in peers : entropy[p] = <<1>>}) = 3
                 /\ Cardinality({p \in peers : entropy[p] = <<5>>}) = 1 )
               => (rel.reliable <=> e = 1)

(* the test of the node of entropy 5 among the peer entropies 1, 1, 1, 5     *)
(* has answered that it is not reliable                                      *)
C11_Witness ==
    /\ rel # <<>> /\ tree = "quad"
    /\ entropy[rel.id] = <<5>> /\ ~rel.reliable
    /\ Cardinality({p \in Leaves : entropy[p] = <<1>>}) = 3

(* the regions the reconstruction call put on the stack *)
Stacked == IF call[1] = "leaf" THEN Leaves ELSE TopLevel

(* C12: every region id put on the stack is popped and deconvolved once, by  *)
(* one worker; all workers end, and when the call returns the stack is empty *)
(* and every such region has its deconvolved image                           *)
C12_RegionsDeconvolvedOnce ==
    /\ <>(phase = "finished")
    /\ [](phase \in {"recon", "finished"} =>
            /\ \A n \in Nodes :
                  /\ Occurrences(regionStack, n) + hist.pops[n] = (IF n \in Stacked THEN 1 ELSE 0)
                  /\ hist.deconvCalls[n] <= hist.pops[n]
                  /\ Cardinality({t \in Active : pc[t] = "deconv" /\ loc[t].id = n})
                        = hist.pops[n] - hist.deconvCalls[n]
            /\ phase = "finished" =>
                  /\ regionStack = <<>>
                  /\ AllDone
                  /\ \A n \in Stacked :
                        /\ hist.deconvCalls[n] = 1
                        /\ regionDeconv[n + 1] = Deconvolved(n, Data(n), call[2]))

(* a reconstruction of the leaves by two threads has returned, each thread   *)
(* having deconvolved a region                                               *)
C12_Witness ==
    /\ phase = "finished" /\ nThreads = 2 /\ call[1] = "leaf" /\ tree = "twoTops"
    /\ \A n \in Leaves : hist.deconvCalls[n] = 1

(* the masks of the regions of the call cover the view *)
MasksCover == \A p \in Leaves : \E n \in Stacked : p \in Mask(n, call[2])

(* C13: with masks that are disjoint and cover the image, the call has       *)
(* written every pixel of dst once, with the image of the region whose mask  *)
(* holds the pixel, and dst is not written while the workers run             *)
C13_PixelsWrittenOnce ==
    /\ phase = "recon" => dst = <<>>
    /\ (phase = "finished" /\ MasksCover) =>
          \A p \in Leaves :
              /\ hist.pixelWrites[p] = 1
              /\ \E n \in Stacked :
                    /\ p \in Mask(n, call[2])
                    /\ dst[p] = Deconvolved(n, Data(n), call[2])

(* a reconstruction of the top-level regions of the tree with two of them,   *)
(* run by two threads, has composed its image                                *)
C13_Witness ==
    /\ phase = "finished" /\ MasksCover /\ nThreads = 2
    /\ call[1] = "top" /\ tree = "twoTops"
    /\ \A p \in Leaves : dst[p] # <<>>

(* C14: a leaf whose latent image was stored in regionDeconv by psfSelection *)
(* is not deconvolved by the reconstruction of the leaves                    *)
C14_CachedNotRecomputed ==
    (phase = "finished" /\ call[1] = "leaf") =>
        \A n \in hist.cached : hist.deconvCalls[n] = 0

(* C15: while the worker threads of a call run, a thread about to access the *)
(* queue or the stack holds m, and a thread about to access visitedLeafs     *)
(* holds mCounter                                                            *)
C15_AccessesLocked ==
    (nThreads > 1 /\ phase \in {"prop", "refine", "recon"}) =>
        \A t \in Active :
            /\ pc[t] \in {"access_q", "push", "access_s"} => m = t
            /\ pc[t] \in {"loop", "count"} => mCounter = t

-----------------------------------------------------------------------------
(* C16: after construction psfWidth is odd and equals the requested width w  *)
(* if w is odd and w - 1 otherwise, layers is even and equals the requested  *)
(* count n if n is even and n - 1 otherwise, and for w >= 1 and n >= 2 both  *)
(* are positive                                                              *)
C16_OddWidthEvenLayers ==
    phase = "constructed" =>
        LET w == request.width
            n == request.layers
        IN /\ psfWidth % 2 = 1
           /\ psfWidth = (IF w % 2 = 1 THEN w ELSE w - 1)
           /\ layers % 2 = 0
           /\ layers = (IF n % 2 = 0 THEN n ELSE n - 1)
           /\ (w >= 1 /\ n >= 2) => (psfWidth > 0 /\ layers > 0)

-----------------------------------------------------------------------------
(* C17: when the kernel file of the i-th top-level node is missing, the      *)
(* error is raised at node i and ends the run: the top-level nodes before i  *)
(* keep their normalised PSF, node i and the later ones have none, no id is  *)
(* enqueued and no step of a tree walk runs                                  *)
KernelMissing == error # <<>> /\ error[1] = "Can not load kernel!"

C17_MissingKernelFatal ==
    KernelMissing =>
        /\ phase = "failed"
        /\ \A j \in 1..Len(topLevelNodeIds) :
              LET n == topLevelNodeIds[j]
              IN IF j < error[2]
                 THEN psfBuf[n] = <<n>> /\ Data(n) = SeedKernel(n)
                 ELSE psfBuf[n] = <<>>
        /\ \A n \in Nodes \ TopLevel : psfBuf[n] = <<>>
        /\ remainingNodes = <<>>
        /\ hist.processed = {}
        /\ \A n \in Nodes : hist.pops[n] = 0 /\ hist.estCalls[n] = 0
        /\ \A t \in Threads : pc[t] = "off"

(* the second kernel file is missing: the first node has its PSF *)
C17_Witness == KernelMissing /\ error[2] = 2

-----------------------------------------------------------------------------
(* C18: disparityEstimation called with an algorithm other than SGBM and     *)
(* MATCH raises an error that ends the run before any tree walk, and the     *)
(* step that raises it leaves the stored disparity maps as they were         *)
InvalidAlgorithm == error # <<>> /\ error[1] = "Invalid disparity algorithm"

C18_InvalidAlgorithmFatal ==
    /\ [](InvalidAlgorithm =>
            /\ phase = "failed"
            /\ remainingNodes = <<>>
            /\ hist.processed = {}
            /\ \A n \in Nodes : hist.pops[n] = 0
            /\ \A t \in Threads : pc[t] = "off")
    /\ [][(~InvalidAlgorithm /\ InvalidAlgorithm') => disparityMaps' = disparityMaps]_vars

(* the call fails when maps of an earlier call are stored *)
C18_Witness == InvalidAlgorithm /\ disparityMaps # <<>>

-----------------------------------------------------------------------------
(* C19: a PSF stored in a node, normalised on load, produced by the joint    *)
(* estimation or copied from another node, has no negative entry and its     *)
(* entries sum to 1 whenever the kernel that was divided by its sum had a    *)
(* positive sum                                                              *)
EnergyPreserving(psf) ==
    /\ \A c \in DOMAIN psf.num : psf.num[c] >= 0
    /\ Mass(psf.num) = psf.den

C19_EnergyPreserving ==
    \A stored \in {norm.psf, norm.copy} \ {<<>>} :
        Mass(stored.num) > 0 => (stored.den > 0 /\ EnergyPreserving(stored))

(* an estimate with a negative entry has been normalised and copied, its     *)
(* positive entry inside the part that is cut out                            *)
C19_Witness ==
    /\ norm.kind = "joint"
    /\ norm.copy # <<>>
    /\ \E c \in DOMAIN norm.raw : norm.raw[c] < 0
    /\ Mass(norm.copy.num) > 0

-----------------------------------------------------------------------------
(* C20: when a step of the propagation pass is about to push the children of *)
(* its node, each child with an empty mask shares the node's PSF and was     *)
(* never given to the joint estimator, each other child holds the one joint  *)
(* estimate made with the node's PSF as kernel, the entropy of each child is *)
(* that of its stored PSF, and neither child has been pushed; after the step *)
(* each child has been pushed once                                           *)
ChildrenOf(n) == {children(n)[1], children(n)[2]}

C20_PropagationStep ==
    phase = "prop" =>
        /\ \A t \in Active :
              pc[t] \in {"lock_push", "push"} =>
                  \A c \in ChildrenOf(loc[t].id) :
                      /\ IF EmptyMask(c)
                         THEN psfBuf[c] = psfBuf[loc[t].id] /\ hist.estCalls[c] = 0
                         ELSE /\ hist.estCalls[c] = 1
                              /\ Data(c) = JointEstimate(c, Data(loc[t].id))
                      /\ entropy[c] = <<computeEntropy(Data(c))>>
                      /\ Occurrences(remainingNodes, c) = 0
                      /\ hist.pops[c] = 0
        /\ \A n \in hist.processed :
              IsInternal(n) =>
                  \A c \in ChildrenOf(n) :
                      Occurrences(remainingNodes, c) + hist.pops[c] = 1

(* a step is about to push one child that inherited and one that was         *)
(* estimated                                                                 *)
C20_Witness ==
    /\ phase = "prop"
    /\ \E t \in Active :
          /\ pc[t] = "push"
          /\ \E c, d \in ChildrenOf(loc[t].id) :
                /\ EmptyMask(c) /\ psfBuf[c] = psfBuf[loc[t].id]
                /\ ~EmptyMask(d) /\ hist.estCalls[d] = 1

-----------------------------------------------------------------------------
(* C21: in the refinement pass the candidate list of a child holds, in this  *)
(* order, the child's PSF as the propagation pass stored it, the parent's    *)
(* PSF and, exactly if the sibling is reliable, the sibling's PSF as the     *)
(* propagation pass stored it                                                *)
C21_CandidatesFromPropagation ==
    phase = "refine" =>
        \A t \in Active :
            pc[t] = "select" =>
                \A i \in 1..2 :
                    LET c == children(loc[t].id)[i]
                        sid == children(loc[t].id)[3 - i]
                        cs == loc[t].cands[i]
                    IN /\ Len(cs) \in {2, 3}
                       /\ CandidateData(cs[1]) = hist.propPsf[c]
                       /\ CandidateData(cs[2]) = Data(loc[t].id)
                       /\ Len(cs) = 3 <=> isReliablePSF(sid)
                       /\ Len(cs) = 3 => CandidateData(cs[3]) = hist.propPsf[sid]

-----------------------------------------------------------------------------
(* C22: while a refinement step scores the candidates of the second child    *)
(* the sibling candidate holds the first child's PSF of the propagation      *)
(* pass, no winner of the step being stored yet; and a store of a winner     *)
(* does not write the PSF of the node the step processes                     *)
StoresWinner(t) == pc[t] = "store_win" /\ loc'[t] # loc[t]

C22_WinnersBeforeStores ==
    /\ [](phase = "refine" =>
            \A t \in Active :
                (pc[t] = "select" /\ loc[t].ci = 2) =>
                    LET c1 == children(loc[t].id)[1]
                        cs == loc[t].cands[2]
                    IN Len(cs) = 3 => CandidateData(cs[3]) = hist.propPsf[c1])
    /\ [][\A t \in Active :
             StoresWinner(t) => hist'.written[loc[t].id] = hist.written[loc[t].id]]_vars

-----------------------------------------------------------------------------
(* C23: once psfSelection has chosen the winner of a child, the regionDeconv *)
(* entry of a leaf child holds, with IRLS, the latent image deconvolved with *)
(* the winner; nothing is cached for an inner node, and nothing with FFT     *)
Selected(t) == IF pc[t] = "select" THEN 1..Len(loc[t].win) ELSE 1..2

C23_WinnerLatentCached ==
    phase = "refine" =>
        /\ \A t \in Active :
              pc[t] \in {"select", "store_win"} =>
                  \A j \in Selected(t) :
                      LET c == children(loc[t].id)[j]
                      IN (~IsInternal(c) /\ deconvAlgo = "IRLS") =>
                            /\ c < Len(regionDeconv)
                            /\ regionDeconv[c + 1] = Latent(c, loc[t].win[j])
        /\ \A n \in hist.cached : ~IsInternal(n) /\ deconvAlgo = "IRLS"
        /\ deconvAlgo = "FFT" => regionDeconv = <<>>

-----------------------------------------------------------------------------
(* C24: a thread holds m only while it pops or pushes and mCounter only      *)
(* while it increments the counter, never during estimation, scoring or      *)
(* deconvolution and never both at once; in no state of a pass or of the     *)
(* reconstruction is every thread waiting for a mutex                        *)
Blocked(t) ==
    \/ pc[t] \in {"lock_q", "lock_push", "lock_s"} /\ m # 0
    \/ pc[t] = "lock_c" /\ mCounter # 0

C24_ShortCriticalSections ==
    /\ m \in {0} \cup Active
    /\ mCounter \in {0} \cup Active
    /\ \A t \in Active :
          /\ m = t => pc[t] \in {"access_q", "push", "access_s"}
          /\ mCounter = t => pc[t] = "count"
          /\ ~(m = t /\ mCounter = t)
    /\ phase \in {"prop", "refine", "recon"} => \E t \in Active : ~Blocked(t)

(* both mutexes are held, by two threads, while each has a thread waiting    *)
(* for it or the other thread computes                                       *)
C24_Witness ==
    /\ phase \in {"prop", "refine"}
    /\ \E t, u \in Active : m = t /\ mCounter = u /\ pc[t] = "push" /\ pc[u] = "count"

-----------------------------------------------------------------------------
(* C25: the refinement pass starts only when every thread of the propagation *)
(* pass has ended; at that moment the queue is empty and every node below    *)
(* the top level has its PSF and its entropy; the start resets the leaf      *)
(* counter before a worker runs, and during the refinement every entropy of  *)
(* a node below the top level is the one the propagation pass computed       *)
C25_PassBarrier ==
    /\ []((phase = "prop" /\ AllDone) =>
            /\ remainingNodes = <<>>
            /\ \A n \in Nodes \ TopLevel : Assigned(n) /\ entropy[n] # <<>>)
    /\ [](phase = "refine" =>
            \A n \in Nodes \ TopLevel :
                entropy[n] = <<computeEntropy(hist.propPsf[n])>>)
    /\ [][(phase = "prop" /\ phase' = "refine") =>
             /\ AllDone
             /\ remainingNodes = <<>>
             /\ visitedLeafs' = 0
             /\ \A t \in Active : pc'[t] = "resize"]_vars

(* a reliability test of the refinement pass has admitted a sibling, with    *)
(* two threads                                                               *)
C25_Witness ==
    /\ phase = "refine"
    /\ nThreads = 2
    /\ \E t \in Active : pc[t] = "select" /\ Len(loc[t].cands[1]) = 3

-----------------------------------------------------------------------------
(* C26: for a transform of at least psfWidth rows and columns the swap of    *)
(* the slices is the cyclic shift by (psfWidth - 1) / 2 in both axes, hence  *)
(* a permutation; the element of the corner (0, 0) lands in the centre of    *)
(* the window that is cut out, and the window holds exactly the elements     *)
(* whose cyclic offset from the corner is at most (psfWidth - 1) / 2 in both *)
(* axes                                                                      *)
C26_SwapRecentres ==
    (norm # <<>> /\ norm.kind = "joint" /\ norm.psf # <<>>) =>
        LET hs == (psfWidth - 1) \div 2
            k == ThresholdToZero(norm.raw)
            swapped == QuadrantSwap(k, norm.cols, norm.rows, psfWidth)
        IN /\ DOMAIN swapped = DOMAIN k
           /\ \A c \in DOMAIN k :
                 swapped[<<(c[1] + hs) % norm.rows, (c[2] + hs) % norm.cols>>] = k[c]
           /\ norm.psf.num[<<hs, hs>>] = k[<<0, 0>>]
           /\ DOMAIN norm.psf.num = Cells(psfWidth)
           /\ \A c \in Cells(psfWidth) :
                 norm.psf.num[c] = k[<<(c[1] + norm.rows - hs) % norm.rows,
                                      (c[2] + norm.cols - hs) % norm.cols>>]

(* a transform with more columns than rows whose corner entry and whose last *)
(* entry, the one before the corner in both axes, are in the window          *)
C26_Witness ==
    /\ norm # <<>> /\ norm.kind = "joint" /\ norm.psf # <<>>
    /\ norm.cols > norm.rows
    /\ norm.raw[<<0, 0>>] = 1
    /\ norm.raw[<<norm.rows - 1, norm.cols - 1>>] = 2
    /\ norm.psf.num[<<(psfWidth - 1) \div 2, (psfWidth - 1) \div 2>>] = 1
    /\ norm.psf.num[<<(psfWidth - 1) \div 2 - 1, (psfWidth - 1) \div 2 - 1>>] = 2

-----------------------------------------------------------------------------
(* C27: within a pass the leaf counter is the number of leaves whose visit   *)
(* has been counted, at most layers; a pass starts with 0 and a step either  *)
(* leaves the counter, adds 1 for the leaf the stepping thread popped, or    *)
(* resets it at the start of a pass                                          *)
CountedLeaves == Leaves \cap hist.processed

C27_CounterCountsLeaves ==
    /\ [](InPass =>
            /\ visitedLeafs = Cardinality(CountedLeaves)
            /\ visitedLeafs <= layers)
    /\ [][\/ visitedLeafs' = visitedLeafs
          \/ /\ visitedLeafs' = visitedLeafs + 1
             /\ \E t \in Active : pc[t] = "count" /\ hist.pops[loc[t].id] = 1
                                    /\ loc[t].id \in Leaves \ hist.processed
          \/ visitedLeafs' = 0 /\ phase' # phase]_vars

(* two threads have counted the four leaves of a tree in the refinement pass *)
C27_Witness ==
    /\ phase = "refine"
    /\ nThreads = 2
    /\ LeafCount(tree) = 4
    /\ visitedLeafs = layers

-----------------------------------------------------------------------------
(* C28: the store of a child's winner in the refinement pass changes the PSF *)
(* content of no node but that child                                         *)
C28_StoreChangesChildOnly ==
    [][\A t \in Active :
          StoresWinner(t) =>
              \A n \in Nodes \ {Child(t)} :
                  DataIn(psfBuf', psfData', n) = Data(n)]_vars

-----------------------------------------------------------------------------
(* C29: in the refinement pass with IRLS no thread is inside                 *)
(* regionDeconv.resize while another thread is inside it or runs the         *)
(* psfSelection of a leaf, which copies latent images into regionDeconv      *)
CachesLatent(t) ==
    pc[t] = "select" /\ ~IsInternal(Child(t)) /\ deconvAlgo = "IRLS"

C29_NoConcurrentResize ==
    (phase = "refine" /\ deconvAlgo = "IRLS") =>
        \A t, u \in Active :
            (t # u /\ pc[t] = "resizing") => (pc[u] # "resizing" /\ ~CachesLatent(u))

-----------------------------------------------------------------------------
(* C30: on a tree with fewer leaves than layers no worker ever leaves its    *)
(* loop: the queue drains, stays empty, and every worker keeps polling it    *)
C30_PollsForever ==
    /\ [](\A t \in Threads : pc[t] # "done")
    /\ <>[](remainingNodes = <<>> /\ visitedLeafs = Cardinality(Leaves))
    /\ \A t \in Threads :
          []<>(t \in Active => (pc[t] = "access_q" /\ remainingNodes = <<>>))

(* the queue has drained, all leaves are counted and both threads are in the *)
(* loop                                                                      *)
C30_Witness ==
    /\ phase = "prop"
    /\ nThreads = 2
    /\ layers > Cardinality(Leaves)
    /\ remainingNodes = <<>>
    /\ visitedLeafs = Cardinality(Leaves)
    /\ \A t \in Active : pc[t] = "access_q" \/ pc[t] = "lock_q"

-----------------------------------------------------------------------------
(* C31: a node whose entropy is at most the mean entropy of its level peers  *)
(* is classified reliable, whatever the entropies of the peers are, all      *)
(* equal and all zero included (the comparison with the mean is multiplied   *)
(* by the number of peers)                                                   *)
C31_AtMostMeanIsReliable ==
    rel # <<>> =>
        LET peers == getLevelPeers(rel.id)
        IN Cardinality(peers) * entropy[rel.id][1] <= SumEntropy(entropy, peers)
              => rel.reliable

====
